---- MODULE Spec2Model ----
(***************************************************************************)
(* Broad-phase collision-candidate core of SimulationTools:                *)
(*   - the spatial hash (computeHash / getHash),                           *)
(*   - the fixed-capacity candidate list and insertSeed,                   *)
(*   - candidate initialisation from the raw gathered buffer,              *)
(*   - closestPointTriangle.                                               *)
(* Scalars are modelled exactly: distances are integers (squared lengths   *)
(* of integer vectors), barycentric coordinates are fractions <<n, d>>,    *)
(* 32-bit words are four bytes, least significant first.  Floating-point   *)
(* rounding, infinities and NaN are outside the model.                     *)
(***************************************************************************)
EXTENDS Integers, Sequences, FiniteSets, Bags, TLC

\* ------------------------------------------------------------- bounds
\* element indices are 0..MaxIndex
MaxIndex == 2
\* finite distances an insertSeed caller offers are 1..MaxDistance
MaxDistance == 3
\* the count argument (K) ranges over 1..MaxCount
MaxCount == 2
\* at most MaxOffers insertSeed calls on one list
MaxOffers == 3
\* at most MaxSeeds insertSeed calls by one execution unit
MaxSeeds == 1
\* cell coordinates are -MaxCell..MaxCell
MaxCell == 4
\* hash table capacities are 1..MaxCapacity
MaxCapacity == 17
\* x and y coordinates of triangle and query points are 0..MaxCoord
MaxCoord == 2

\* ---------------------------------------------------------- constants
\* SENTINEL_INDEX: larger than every element index
UINT_MAX == MaxIndex + 1
\* SENTINEL_DISTANCE: larger than every finite distance of the model
FLT_MAX == MaxDistance + (MaxIndex * MaxIndex) + 1

Indices == 0..MaxIndex
Distances == (1..MaxDistance) \cup {FLT_MAX}

VARIABLES
  count,        \* the count argument shared by the calls on one list (K)
  candidates,   \* thread SortedCollisionCandidates: slots 1..count
  offers,       \* history: bag of the (index, distance) pairs offered so far
  last,         \* history: arguments of the most recent insertSeed call
  prev,         \* history: the list as the most recent call found it
  mono,         \* history: every offer so far was >= all offers before it
  rawCandidates,    \* device uint* candidates: the raw gathered buffer
  unitElem,         \* per unit: the index argument (its query element)
  sortedCandidates, \* per unit: its thread SortedCollisionCandidates
  pc,               \* per unit: "init", "seed" or "done"
  loopI,            \* per unit: the i of the initialisation loop
  reads,            \* history, per unit: the raw slots it has read
  seeds,            \* history, per unit: the indices it has offered
  cell,             \* int3 position: the grid cell to hash
  hashTableCapacity,
  slot,             \* the value getHash returned, NoResult before the call
  tri,              \* the arguments <<p0, p1, p2, p>> of closestPointTriangle
  closest           \* what closestPointTriangle produced, NoResult before

listVars == <<count, candidates, offers, last, prev, mono>>

unitVars == <<rawCandidates, unitElem, sortedCandidates, pc, loopI, reads, seeds>>

hashVars == <<cell, hashTableCapacity, slot>>

triVars == <<tri, closest>>

vars == <<listVars, unitVars, hashVars, triVars>>

\* ------------------------------------------------------ candidate list
\* struct CollisionCandidate
CollisionCandidate(index, distance) == [index |-> index, distance |-> distance]

\* an empty slot
Empty == CollisionCandidate(UINT_MAX, FLT_MAX)

\* line 164: the slot qualifies as the insertion point
Qualifies_Any(c, i, distance, insertPosition) ==
  distance <= c[i + 1].distance

Qualifies(c, i, distance, insertPosition) ==
  distance <= c[i + 1].distance /\ insertPosition = -1

\* lines 163-172: the scan; i is the 0-based loop index.  Returns
\* <<insertPosition, duplicateIndex>>, each -1 when not found.
RECURSIVE Scan_NoDup(_, _, _, _, _, _)
Scan_NoDup(c, index, distance, cnt, i, insertPosition) ==
  IF i >= cnt THEN <<insertPosition, -1>>
  ELSE LET ip == IF distance <= c[i + 1].distance /\ insertPosition = -1
                 THEN i ELSE insertPosition
       IN  Scan_NoDup(c, index, distance, cnt, i + 1, ip)

RECURSIVE Scan_DupFirst(_, _, _, _, _, _)
Scan_DupFirst(c, index, distance, cnt, i, insertPosition) ==
  IF i >= cnt THEN <<insertPosition, -1>>
  ELSE IF index = c[i + 1].index THEN <<insertPosition, i>>
  ELSE LET ip == IF distance <= c[i + 1].distance /\ insertPosition = -1
                 THEN i ELSE insertPosition
       IN  Scan_DupFirst(c, index, distance, cnt, i + 1, ip)

RECURSIVE Scan(_, _, _, _, _, _)
Scan(c, index, distance, cnt, i, insertPosition) ==
  IF i >= cnt THEN <<insertPosition, -1>>
  ELSE LET ip == IF Qualifies(c, i, distance, insertPosition)
                 THEN i ELSE insertPosition
       IN  IF index = c[i + 1].index THEN <<ip, i>>
           ELSE Scan(c, index, distance, cnt, i + 1, ip)

\* line 175: where the shift starts (0-based)
ShiftStart_Last(duplicateIndex, cnt) == cnt - 1

ShiftStart(duplicateIndex, cnt) ==
  IF duplicateIndex = -1 THEN cnt - 1 ELSE duplicateIndex

\* lines 176-178: for (j = start; j > insertPosition; j--) c[j] = c[j-1]
Shift_None(c, j, insertPosition) == c

RECURSIVE Shift(_, _, _)
Shift(c, j, insertPosition) ==
  IF j > insertPosition
  THEN Shift([c EXCEPT ![j + 1] = c[j]], j - 1, insertPosition)
  ELSE c

\* lines 152-182
insertSeed_ReplaceWorst(c, index, distance, cnt) ==
  LET r == Scan(c, index, distance, cnt, 0, -1)
      insertPosition == r[1]
      duplicateIndex == r[2]
  IN  IF insertPosition /= -1
      THEN LET start == ShiftStart(duplicateIndex, cnt)
               s == Shift(c, start, insertPosition)
           IN  [s EXCEPT ![insertPosition + 1] = CollisionCandidate(index, distance)]
      ELSE [c EXCEPT ![cnt] = CollisionCandidate(index, distance)]

insertSeed(c, index, distance, cnt) ==
  LET r == Scan(c, index, distance, cnt, 0, -1)
      insertPosition == r[1]
      duplicateIndex == r[2]
  IN  IF insertPosition /= -1
      THEN LET start == ShiftStart(duplicateIndex, cnt)
               s == Shift(c, start, insertPosition)
           IN  [s EXCEPT ![insertPosition + 1] = CollisionCandidate(index, distance)]
      ELSE c

\* ------------------------------------------------------------ helpers
OfferedDistances == {o.distance : o \in BagToSet(offers)}

\* --------------------------------------------------- list specification
NoCall == CollisionCandidate(UINT_MAX, 0)

\* the variables of the other specifications, unused
UnitIdle ==
  /\ rawCandidates = <<>> /\ unitElem = <<>> /\ sortedCandidates = <<>>
  /\ pc = <<>> /\ loopI = <<>> /\ reads = <<>> /\ seeds = <<>>

NoResult == <<>>

HashIdle == cell = <<0, 0, 0>> /\ hashTableCapacity = 1 /\ slot = NoResult

TriIdle == tri = <<>> /\ closest = NoResult

ListIdle ==
  /\ candidates = <<>> /\ offers = EmptyBag /\ last = NoCall
  /\ prev = <<>> /\ mono = TRUE

ListInit ==
  /\ count \in 1..MaxCount
  /\ candidates = [i \in 1..count |-> Empty]
  /\ offers = EmptyBag
  /\ last = NoCall
  /\ prev = candidates
  /\ mono = TRUE
  /\ UnitIdle /\ HashIdle /\ TriIdle

\* one call insertSeed(candidates, index, distance, count)
InsertSeed(index, distance) ==
  /\ BagCardinality(offers) < MaxOffers
  /\ candidates' = insertSeed(candidates, index, distance, count)
  /\ offers' = offers (+) SetToBag({CollisionCandidate(index, distance)})
  /\ last' = CollisionCandidate(index, distance)
  /\ prev' = candidates
  /\ mono' = (mono /\ \A d \in OfferedDistances : d <= distance)
  /\ UNCHANGED <<count, unitVars, hashVars, triVars>>

ListNext ==
  \E index \in Indices \cup {UINT_MAX}, distance \in Distances :
    InsertSeed(index, distance)

Spec == ListInit /\ [][ListNext]_vars

\* ------------------------------------------------------- list properties
Min(a, b) == IF a <= b THEN a ELSE b

Sorted(c) == \A i \in 1..(Len(c) - 1) : c[i].distance <= c[i + 1].distance

Full(c) == \A i \in 1..Len(c) : c[i].index /= UINT_MAX

NoDuplicate(c) ==
  \A i, j \in 1..Len(c) :
    (i /= j /\ c[i].index /= UINT_MAX) => c[i].index /= c[j].index

Holds(c, index) == \E i \in 1..Len(c) : c[i].index = index

\* the entries of c other than those of index, in list order
Others(c, index) == SelectSeq(c, LAMBDA e : e.index /= index /\ e.index /= UINT_MAX)

\* a sequence of integers, sorted ascending
RECURSIVE SortedInsert(_, _)
SortedInsert(s, x) ==
  IF s = <<>> THEN <<x>>
  ELSE IF x <= Head(s) THEN <<x>> \o s
  ELSE <<Head(s)>> \o SortedInsert(Tail(s), x)

RECURSIVE SortInts(_)
SortInts(s) == IF s = <<>> THEN <<>> ELSE SortedInsert(SortInts(Tail(s)), Head(s))

\* the offers of a bag as a sequence, ascending by (distance, index), copies kept
OfferKey(o) == o.distance * (UINT_MAX + 1) + o.index

RECURSIVE CanonicalOrder(_)
CanonicalOrder(B) ==
  IF BagToSet(B) = {} THEN <<>>
  ELSE LET o == CHOOSE x \in BagToSet(B) :
                  \A y \in BagToSet(B) : OfferKey(x) <= OfferKey(y)
       IN  <<o>> \o CanonicalOrder(B (-) SetToBag({o}))

RECURSIVE ApplyOffers(_, _, _)
ApplyOffers(c, s, cnt) ==
  IF s = <<>> THEN c
  ELSE ApplyOffers(insertSeed(c, Head(s).index, Head(s).distance, cnt), Tail(s), cnt)

DistancesOf(s) == [i \in 1..Len(s) |-> s[i].distance]

\* some insertSeed call was made
Called == offers /= EmptyBag

NonSentinelOffers == \A o \in BagToSet(offers) : o.index /= UINT_MAX

\* every index was offered at most once
DistinctIndexOffers ==
  /\ NonSentinelOffers
  /\ \A o \in BagToSet(offers) : CopiesIn(o, offers) = 1
  /\ \A o1, o2 \in BagToSet(offers) : o1.index = o2.index => o1 = o2

\* offers for different indices have different distances
DistinctDistanceOffers ==
  /\ NonSentinelOffers
  /\ \A o1, o2 \in BagToSet(offers) :
       o1.index /= o2.index => o1.distance /= o2.distance

HeldDistances == SortInts(DistancesOf(SelectSeq(candidates, LAMBDA e : e.index /= UINT_MAX)))

BestOffered ==
  LET all == DistancesOf(CanonicalOrder(offers))
  IN  SubSeq(all, 1, Min(Len(all), count))

\* C1: from an all-empty list, while the offered distances are non-decreasing,
\* the first count slots are sorted ascending by distance after every call.
C1_SortedAfterMonotoneOffers == mono => Sorted(candidates)

C1_Witness ==
  /\ mono /\ count >= 2 /\ BagCardinality(offers) >= 2
  /\ candidates[1].distance < candidates[2].distance
  /\ candidates[2].index /= UINT_MAX

\* C2: from an all-empty list, after any sequence of offers with non-sentinel
\* indices, no two slots hold the same non-sentinel index.
C2_NoDuplicateIndex == NonSentinelOffers => NoDuplicate(candidates)

C2_Witness ==
  /\ NonSentinelOffers
  /\ \E o1, o2 \in BagToSet(offers) : o1.index = o2.index /\ o1.distance /= o2.distance
  /\ Holds(candidates, last.index)

\* C3: a call on a sorted, full list with a distance strictly greater than the
\* last slot's distance leaves every slot unchanged.
C3_WorseOfferLeavesFullListUnchanged ==
  (/\ Called /\ Full(prev) /\ Sorted(prev)
   /\ last.distance > prev[count].distance)
  => candidates = prev

C3_Witness ==
  /\ Called /\ Full(prev) /\ Sorted(prev) /\ count >= 2
  /\ last.distance > prev[count].distance
  /\ Holds(prev, last.index)

\* C4: with pairwise distinct non-sentinel indices offered, the distances held
\* in the non-sentinel slots are the min(n, count) smallest offered distances;
\* and a new index offered to a full list with distance <= the last slot's
\* distance evicts exactly the last entry.
C4_KBest ==
  DistinctIndexOffers =>
    /\ HeldDistances = BestOffered
    /\ (Called /\ Full(prev) /\ last.distance <= prev[count].distance)
         => {candidates[i] : i \in 1..count}
              = {prev[i] : i \in 1..(count - 1)} \cup {last}

C4_Witness ==
  /\ DistinctIndexOffers /\ count >= 2 /\ BagCardinality(offers) > count
  /\ Full(prev) /\ last.distance < prev[count].distance
  /\ ~Holds(candidates, prev[count].index)

\* C5: offering an index the sorted, duplicate-free list already holds leaves
\* it in exactly one slot with the smaller of the two distances, keeps every
\* other entry in order, and changes nothing when the new distance is larger.
C5_UpdateInPlace ==
  \A p \in 1..count :
    (/\ Called
     /\ last.index /= UINT_MAX
     /\ prev[p].index = last.index
     /\ Sorted(prev) /\ NoDuplicate(prev))
    => /\ Cardinality({q \in 1..count : candidates[q].index = last.index}) = 1
       /\ \A q \in 1..count :
            candidates[q].index = last.index
              => candidates[q].distance = Min(prev[p].distance, last.distance)
       /\ Others(candidates, last.index) = Others(prev, last.index)
       /\ last.distance > prev[p].distance => candidates = prev

C5_Witness ==
  /\ Called /\ count >= 2 /\ last.index /= UINT_MAX
  /\ prev[2].index = last.index
  /\ prev[1].index /= UINT_MAX
  /\ last.distance < prev[1].distance
  /\ candidates = <<last, prev[1]>> \o SubSeq(prev, 3, count)

\* C10: when offers for different indices have different distances, the list
\* reached by the order the calls were made in equals the list the same offers
\* give in ascending (distance, index) order: every order gives the same list.
C10_OrderIndependent ==
  DistinctDistanceOffers =>
    candidates = ApplyOffers([i \in 1..count |-> Empty], CanonicalOrder(offers), count)

C10_Witness ==
  /\ DistinctDistanceOffers /\ ~mono
  /\ BagCardinality(offers) = MaxOffers
  /\ \E o1, o2 \in BagToSet(offers) : o1.index = o2.index /\ o1.distance /= o2.distance
  /\ \E o \in BagToSet(offers) : ~Holds(candidates, o.index)

\* ------------------------------------------- candidate initialisation
\* the positions buffer: element i sits at (i, 0, 0)
positions == [i \in Indices |-> <<i, 0, 0>>]

\* getPosition(index, positions)
getPosition(index) == positions[index]

\* length_squared(a - b)
length_squared(a, b) ==
  ((a[1] - b[1]) * (a[1] - b[1])) + ((a[2] - b[2]) * (a[2] - b[2]))
    + ((a[3] - b[3]) * (a[3] - b[3]))

\* line 115: the raw slot read in iteration i for element index
RawSlot_Unstrided(index, cnt, i) == index + i

RawSlot(index, cnt, i) == (index * cnt) + i

\* lines 116-122: the slot written for a raw collider index
Materialise(colliderIndex, position) ==
  IF colliderIndex /= UINT_MAX
  THEN CollisionCandidate(colliderIndex,
                          length_squared(position, getPosition(colliderIndex)))
  ELSE CollisionCandidate(colliderIndex, FLT_MAX)

\* a slot of thread memory not written yet
Unwritten == CollisionCandidate(-1, -1)

Units == {1, 2}

\* raw buffers: consecutive indices, ascending or descending, from any start;
\* UINT_MAX stands in the sequence as the sentinel
RawBuffers(cnt) ==
  {[k \in 0..(((MaxIndex + 1) * cnt) - 1) |-> ((k * a) + s) % (UINT_MAX + 1)] :
     a \in {1, UINT_MAX}, s \in 0..UINT_MAX}

UnitInit ==
  /\ count \in 1..MaxCount
  /\ rawCandidates \in RawBuffers(count)
  /\ unitElem \in {f \in [Units -> Indices] : f[1] < f[2]}
  /\ sortedCandidates = [u \in Units |-> [i \in 1..count |-> Unwritten]]
  /\ pc = [u \in Units |-> "init"]
  /\ loopI = [u \in Units |-> 0]
  /\ reads = [u \in Units |-> {}]
  /\ seeds = [u \in Units |-> <<>>]
  /\ ListIdle /\ HashIdle /\ TriIdle

\* one iteration of the loop of initializeCollisionCandidates (lines 114-123)
InitStep(u) ==
  /\ pc[u] = "init"
  /\ LET i == loopI[u]
         rawSlot == RawSlot(unitElem[u], count, i)
         colliderIndex == rawCandidates[rawSlot]
     IN  /\ sortedCandidates' =
              [sortedCandidates EXCEPT
                 ![u][i + 1] = Materialise(colliderIndex, getPosition(unitElem[u]))]
         /\ reads' = [reads EXCEPT ![u] = @ \cup {rawSlot}]
         /\ loopI' = [loopI EXCEPT ![u] = i + 1]
         /\ pc' = [pc EXCEPT ![u] = IF i + 1 < count THEN "init" ELSE "seed"]
  /\ UNCHANGED <<count, rawCandidates, unitElem, seeds, listVars,
               hashVars, triVars>>

\* the distance a unit offers a neighbour with
SeedDistance(u, index) == length_squared(getPosition(unitElem[u]), getPosition(index))

\* one insertSeed call of unit u on its own list
SeedStep(u, index) ==
  /\ pc[u] = "seed"
  /\ Len(seeds[u]) < MaxSeeds
  /\ sortedCandidates' =
       [sortedCandidates EXCEPT
          ![u] = insertSeed(@, index, SeedDistance(u, index), count)]
  /\ seeds' = [seeds EXCEPT ![u] = Append(@, index)]
  /\ UNCHANGED <<count, rawCandidates, unitElem, pc, loopI, reads, listVars,
               hashVars, triVars>>

\* unit u returns
Finish(u) ==
  /\ pc[u] = "seed"
  /\ pc' = [pc EXCEPT ![u] = "done"]
  /\ UNCHANGED <<count, rawCandidates, unitElem, sortedCandidates, loopI, reads,
                 seeds, listVars,
               hashVars, triVars>>

UnitNext ==
  \E u \in Units :
    \/ InitStep(u)
    \/ \E index \in Indices : SeedStep(u, index)
    \/ Finish(u)

SpecUnits == UnitInit /\ [][UnitNext]_vars

\* ------------------------------------------------------ unit properties
\* the raw slots of element e
OwnSlice(e) == (e * count)..((e * count) + count - 1)

\* the list unit u produces when it runs alone: its own slice materialised in
\* order, then its offers applied in order
AloneInitial(u) ==
  [i \in 1..count |->
     Materialise(rawCandidates[(unitElem[u] * count) + (i - 1)],
                 getPosition(unitElem[u]))]

RECURSIVE ApplySeeds(_, _, _)
ApplySeeds(c, u, s) ==
  IF s = <<>> THEN c
  ELSE ApplySeeds(insertSeed(c, Head(s), SeedDistance(u, Head(s)), count), u, Tail(s))

Alone(u) == ApplySeeds(AloneInitial(u), u, seeds[u])

\* every sentinel slot comes after every non-sentinel slot
SentinelsLast(c) ==
  \A i, j \in 1..Len(c) :
    (c[i].index = UINT_MAX /\ c[j].index /= UINT_MAX) => j < i

\* C7: a list materialised from any raw slice and then refined by insertSeed
\* calls is sorted ascending by distance, sentinel slots last, after every
\* insertSeed call.
C7_InitialisedListSorted ==
  \A u \in Units :
    (pc[u] \in {"seed", "done"} /\ seeds[u] /= <<>>)
      => (Sorted(sortedCandidates[u]) /\ SentinelsLast(sortedCandidates[u]))

\* C8: two units on distinct elements, under every interleaving: a unit reads
\* only the raw slots of its own element, and once initialised its list is
\* the list it produces alone from its slice and its offers.
C8_UnitIndependence ==
  \A u \in Units :
    /\ reads[u] \subseteq OwnSlice(unitElem[u])
    /\ pc[u] \in {"seed", "done"} => sortedCandidates[u] = Alone(u)

C8_Witness ==
  /\ count >= 2
  /\ pc[1] = "done" /\ pc[2] = "done"
  /\ seeds[1] /= <<>> /\ seeds[2] /= <<>>
  /\ sortedCandidates[1] /= sortedCandidates[2]
  /\ sortedCandidates[1] /= AloneInitial(1)
  /\ reads[1] = OwnSlice(unitElem[1]) /\ reads[2] = OwnSlice(unitElem[2])

\* -------------------------------------------------------- spatial hash
\* A 32-bit word is <<b0, b1, b2, b3>>, b0 the least significant byte; an int
\* is the word of its two's complement, a uint the word of its value.
ByteOf(n, k) ==
  CASE k = 0 -> n % 256
    [] k = 1 -> (n \div 256) % 256
    [] k = 2 -> (n \div 65536) % 256
    [] k = 3 -> (n \div 16777216) % 256

\* -w (mod 2^32): complement every byte and add one
NegateWord(w) ==
  LET c == [k \in 1..4 |-> 255 - w[k]]
      t1 == c[1] + 1
      t2 == c[2] + (t1 \div 256)
      t3 == c[3] + (t2 \div 256)
      t4 == c[4] + (t3 \div 256)
  IN  <<t1 % 256, t2 % 256, t3 % 256, t4 % 256>>

\* the word of an int n, -2^31 < n < 2^31
WordOf(n) ==
  IF n >= 0
  THEN <<ByteOf(n, 0), ByteOf(n, 1), ByteOf(n, 2), ByteOf(n, 3)>>
  ELSE NegateWord(<<ByteOf(-n, 0), ByteOf(-n, 1), ByteOf(-n, 2), ByteOf(-n, 3)>>)

\* a * b, keeping the low 32 bits (wraparound)
MulWord(a, b) ==
  LET t1 == a[1] * b[1]
      t2 == (a[1] * b[2]) + (a[2] * b[1]) + (t1 \div 256)
      t3 == (a[1] * b[3]) + (a[2] * b[2]) + (a[3] * b[1]) + (t2 \div 256)
      t4 == (a[1] * b[4]) + (a[2] * b[3]) + (a[3] * b[2]) + (a[4] * b[1])
              + (t3 \div 256)
  IN  <<t1 % 256, t2 % 256, t3 % 256, t4 % 256>>

\* bitwise exclusive or of two naturals
RECURSIVE XorNat(_, _)
XorNat(a, b) ==
  IF a = 0 THEN b
  ELSE IF b = 0 THEN a
  ELSE (2 * XorNat(a \div 2, b \div 2)) + ((a + b) % 2)

XorWord(a, b) == [k \in 1..4 |-> XorNat(a[k], b[k])]

\* the word read as an int is negative
IsNegative(w) == w[4] >= 128

\* the word read as a uint, modulo m (m small)
UnsignedMod(w, m) ==
  LET r4 == w[4] % m
      r3 == ((r4 * 256) + w[3]) % m
      r2 == ((r3 * 256) + w[2]) % m
  IN  ((r2 * 256) + w[1]) % m

\* lines 48-56: the int hash, as a word
computeHash(position) ==
  XorWord(XorWord(MulWord(WordOf(position[1]), WordOf(92837111)),
                  MulWord(WordOf(position[2]), WordOf(689287499))),
          MulWord(WordOf(position[3]), WordOf(283923481)))

\* lines 58-61: hash % hashTableCapacity has an int and a uint operand, so the
\* int is converted to uint and the remainder is the unsigned one; abs of the
\* uint result and the uint cast change nothing.
getHash(position, capacity) == UnsignedMod(computeHash(position), capacity)

CellCoords == (-MaxCell)..MaxCell

HashInit ==
  /\ cell \in CellCoords \X CellCoords \X CellCoords
  /\ hashTableCapacity \in 1..MaxCapacity
  /\ slot = NoResult
  /\ count = 1
  /\ ListIdle /\ UnitIdle /\ TriIdle

GetHash ==
  /\ slot = NoResult
  /\ slot' = <<getHash(cell, hashTableCapacity)>>
  /\ UNCHANGED <<cell, hashTableCapacity, listVars, unitVars, triVars>>

HashNext == GetHash

SpecHash == HashInit /\ [][HashNext]_vars

\* abs(h rem m) for the int h of word w: the remainder of a negative h has the
\* sign of h, so its absolute value is |h| mod m, and |h| = -h is NegateWord(w)
AbsSignedRem(w, m) ==
  IF IsNegative(w) THEN UnsignedMod(NegateWord(w), m) ELSE UnsignedMod(w, m)

\* C6: for every cell and every capacity >= 1, getHash(cell, capacity) is
\* abs(h rem capacity), h the wrapped signed 32-bit hash and rem the signed
\* truncating remainder.
C6_SlotIsAbsOfSignedRemainder ==
  slot /= NoResult => slot[1] = AbsSignedRem(computeHash(cell), hashTableCapacity)

\* ------------------------------------------------ closestPointTriangle
\* A scalar the function divides to get is a fraction <<n, d>> with d > 0.
Frac(n, d) == IF d < 0 THEN <<-n, -d>> ELSE <<n, d>>

FracNegative(q) == q[1] < 0

OneMinus(q) == <<q[2] - q[1], q[2]>>

\* saturate(t): clamp to [0, 1]
saturate_None(q) == q

saturate(q) ==
  IF q[1] < 0 THEN <<0, 1>>
  ELSE IF q[1] > q[2] THEN <<1, 1>>
  ELSE q

VecSub(a, b) == <<a[1] - b[1], a[2] - b[2], a[3] - b[3]>>

dot(a, b) == (a[1] * b[1]) + (a[2] * b[2]) + (a[3] * b[3])

\* lines 64-67, 74-77, 84-87: the clamped parameter of p on the edge from
\* `from` to `to`
EdgeParameter(from, to, p) ==
  LET d == VecSub(to, from)
      d2 == dot(d, d)
      t == IF d2 = 0 THEN <<1, 2>> ELSE Frac(dot(d, VecSub(p, from)), d2)
  IN  saturate(t)

\* line 97: b0 * p0 + b1 * p1 + b2 * p2, as <<numerators, denominator>>
WeightedPoint(uvw, p0, p1, p2) ==
  LET w0 == uvw[1][1] * uvw[2][2] * uvw[3][2]
      w1 == uvw[2][1] * uvw[1][2] * uvw[3][2]
      w2 == uvw[3][1] * uvw[1][2] * uvw[2][2]
  IN  <<[k \in 1..3 |-> (w0 * p0[k]) + (w1 * p1[k]) + (w2 * p2[k])],
        uvw[1][2] * uvw[2][2] * uvw[3][2]>>

\* lines 41-95: the barycentric triple written to uvw, and the branch taken
Barycentric(p0, p1, p2, p) ==
  LET d1 == VecSub(p1, p0)
      d2 == VecSub(p2, p0)
      pp0 == VecSub(p, p0)
      a == dot(d1, d1)
      b == dot(d2, d1)
      c == dot(pp0, d1)
      d == b
      e == dot(d2, d2)
      f == dot(pp0, d2)
      det == (a * e) - (b * d)
  IN  IF det /= 0
      THEN LET s == Frac((c * e) - (b * f), det)
               t == Frac((a * f) - (c * d), det)
               b0 == <<s[2] - s[1] - t[1], s[2]>>
           IN  IF FracNegative(b0)
               THEN LET t12 == EdgeParameter(p1, p2, p)
                    IN  [uvw |-> <<<<0, 1>>, OneMinus(t12), t12>>, branch |-> "edge12"]
               ELSE IF FracNegative(s)
               THEN LET t20 == EdgeParameter(p2, p0, p)
                    IN  [uvw |-> <<t20, <<0, 1>>, OneMinus(t20)>>, branch |-> "edge20"]
               ELSE IF FracNegative(t)
               THEN LET t01 == EdgeParameter(p0, p1, p)
                    IN  [uvw |-> <<OneMinus(t01), t01, <<0, 1>>>>, branch |-> "edge01"]
               ELSE [uvw |-> <<b0, s, t>>, branch |-> "inside"]
      ELSE [uvw |-> <<<<1, 3>>, <<1, 3>>, <<1, 3>>>>, branch |-> "degenerate"]

\* lines 41-98: uvw, the returned point, and the branch taken
closestPointTriangle(p0, p1, p2, p) ==
  LET r == Barycentric(p0, p1, p2, p)
  IN  [uvw |-> r.uvw, point |-> WeightedPoint(r.uvw, p0, p1, p2), branch |-> r.branch]

\* z coordinates are 0 or 1
Points == (0..MaxCoord) \X (0..MaxCoord) \X {0, 1}

TriInit ==
  /\ tri \in Points \X Points \X Points \X Points
  /\ closest = NoResult
  /\ count = 1
  /\ ListIdle /\ UnitIdle /\ HashIdle

ClosestPointTriangle ==
  /\ closest = NoResult
  /\ closest' = <<closestPointTriangle(tri[1], tri[2], tri[3], tri[4])>>
  /\ UNCHANGED <<tri, listVars, unitVars, hashVars>>

TriNext == ClosestPointTriangle

SpecTri == TriInit /\ [][TriNext]_vars

InUnitInterval(q) == 0 <= q[1] /\ q[1] <= q[2]

\* q1 + q2 + q3 = 1
SumsToOne(q1, q2, q3) ==
  (q1[1] * q2[2] * q3[2]) + (q2[1] * q1[2] * q3[2]) + (q3[1] * q1[2] * q2[2])
    = q1[2] * q2[2] * q3[2]

\* C9: for every input, degenerate triangles included, each component of uvw
\* is in [0, 1] and the components sum to 1, on every branch.
C9_BarycentricValid ==
  closest /= NoResult =>
    LET uvw == closest[1].uvw
    IN  /\ \A k \in 1..3 : InUnitInterval(uvw[k])
        /\ SumsToOne(uvw[1], uvw[2], uvw[3])

\* an edge re-projection whose parameter was clamped
C9_Witness ==
  /\ closest /= NoResult
  /\ closest[1].branch = "edge12"
  /\ closest[1].uvw[3] = <<1, 1>>

====
